---- MODULE Spec2Model ----
(***************************************************************************)
(* A model of the AI travel planner: the TravelRequest value object, the   *)
(* calculate_expenses tool, the interactive input collection, the CLI      *)
(* flow main() -> TravelPlannerApp -> plan_trip -> _save_plan, the         *)
(* load-time check of config.py, the HTTP handler of main.py, and          *)
(* _save_plan called by processes that share the reports directory.        *)
(*                                                                         *)
(* Text is modelled as a sequence of one-character strings, so that        *)
(* strip(), lower(), split() and strptime() are computed, not assumed.     *)
(***************************************************************************)
EXTENDS Integers, Sequences, FiniteSets, TLC

VARIABLES
    pc,          \* the position of the program being run
    inputs,      \* _get_user_input: the lines typed at the nine prompts
    request,     \* the TravelRequest built (PyNone before it is built)
    warned,      \* _get_user_input: whether the invalid-date warning was printed
    ctorArgs,    \* TravelRequest(...): the keyword arguments passed
    dict,        \* the mapping returned by to_dict (PyNone before the call)
    operation,   \* calculate_expenses: the expression passed
    evaluated,   \* calculate_expenses: whether eval(operation) was reached
    toolResult,  \* calculate_expenses: the string returned
    body,        \* POST /plan: the request body received
    response,    \* POST /plan: what left the handler (PyNone before it ran)
    entry,       \* what the process runs: main() of crew.py, or import config
    env,         \* os.environ after load_dotenv: the two credentials
    initialised, \* the parts of TravelPlannerAgents set so far: llm, tools, agents
    remoteCalls, \* remote calls issued by this process (LLM test call, crew steps)
    out,         \* what this process printed, in order
    result,      \* the text plan_trip returned (empty before it returns)
    tasks,       \* the list create_tasks returned
    issued,      \* names of the steps handed to the crew's agents, in order
    inProgress,  \* names of the steps being executed
    completed,   \* names of the steps that finished, in order
    files,       \* the reports directory: file name -> content
    clock,       \* wall-clock time in whole seconds
    runs,        \* processes started so far
    mainOutcome, \* how the entry point ended: "running", "returned", or raised
    planOutcome, \* how plan_trip ended: "none", "returned", or raised
    written,     \* names of the files this process opened for writing
    faults,      \* the failures that happened in this process
    saves        \* concurrent _save_plan calls: process -> how far its call is

inVars == <<inputs, request, warned>>

reqVars == <<ctorArgs, dict>>

calcVars == <<operation, evaluated, toolResult>>

httpVars == <<body, response>>

crewVars == <<tasks, issued, inProgress, completed>>

cliVars == <<entry, env, initialised, remoteCalls, out, result, tasks, issued,
             inProgress, completed, files, clock, runs, mainOutcome,
             planOutcome, written, faults>>

vars == <<pc, inputs, request, warned, ctorArgs, dict, operation, evaluated,
          toolResult, body, response, entry, env, initialised, remoteCalls,
          out, result, tasks, issued, inProgress, completed, files, clock,
          runs, mainOutcome, planOutcome, written, faults, saves>>

----------------------------------------------------------------------------
(* Text helpers: str.strip, str.lower, str.split, str.join                 *)

Whitespace == {" ", "\t"}

Digits == <<"0", "1", "2", "3", "4", "5", "6", "7", "8", "9">>

UpperLetters == <<"A","B","C","D","E","F","G","H","I","J","K","L","M",
                  "N","O","P","Q","R","S","T","U","V","W","X","Y","Z">>

LowerLetters == <<"a","b","c","d","e","f","g","h","i","j","k","l","m",
                  "n","o","p","q","r","s","t","u","v","w","x","y","z">>

IsDigit(c) == \E i \in 1..Len(Digits) : Digits[i] = c

DigitVal(c) == (CHOOSE i \in 1..Len(Digits) : Digits[i] = c) - 1

LowerChar(c) ==
    IF \E i \in 1..Len(UpperLetters) : UpperLetters[i] = c
    THEN LowerLetters[CHOOSE i \in 1..Len(UpperLetters) : UpperLetters[i] = c]
    ELSE c

lower(s) == [i \in 1..Len(s) |-> LowerChar(s[i])]

RECURSIVE lstrip(_)
lstrip(s) ==
    IF s # <<>> /\ Head(s) \in Whitespace THEN lstrip(Tail(s)) ELSE s

RECURSIVE rstrip(_)
rstrip(s) ==
    IF s # <<>> /\ s[Len(s)] \in Whitespace
    THEN rstrip(SubSeq(s, 1, Len(s) - 1)) ELSE s

strip(s) == rstrip(lstrip(s))

\* s.split(sep) for a one-character separator: always at least one part
RECURSIVE split(_, _)
split(s, sep) ==
    IF \E i \in 1..Len(s) : s[i] = sep
    THEN LET k == CHOOSE i \in 1..Len(s) :
                      s[i] = sep /\ \A j \in 1..(i - 1) : s[j] # sep
         IN  <<SubSeq(s, 1, k - 1)>> \o split(SubSeq(s, k + 1, Len(s)), sep)
    ELSE <<s>>

RECURSIVE join(_, _)
join(sep, parts) ==
    IF parts = <<>> THEN <<>>
    ELSE IF Len(parts) = 1 THEN parts[1]
    ELSE parts[1] \o sep \o join(sep, Tail(parts))

RECURSIVE SelectSeqNonEmpty(_)
SelectSeqNonEmpty(parts) ==
    IF parts = <<>> THEN <<>>
    ELSE IF Head(parts) # <<>>
         THEN <<Head(parts)>> \o SelectSeqNonEmpty(Tail(parts))
         ELSE SelectSeqNonEmpty(Tail(parts))

----------------------------------------------------------------------------
(* Python values that may be None                                          *)

PyNone == [py |-> "None"]

PyList(items) == [py |-> "list", items |-> items]

\* a call left by an exception of the given class
Raised(class) == [raised |-> class]

\* how a call ended when it did not raise
How(state) == [how |-> state]

----------------------------------------------------------------------------
(* datetime.strptime(s, "%Y-%m-%d") and date subtraction                   *)

\* the directive %Y: exactly four digits
MatchesY(f) == Len(f) = 4 /\ \A i \in 1..4 : IsDigit(f[i])

\* the directive %m: 1[0-2] | 0[1-9] | [1-9]
MatchesM(f) ==
    \/ Len(f) = 2 /\ f[1] = "1" /\ f[2] \in {"0", "1", "2"}
    \/ Len(f) = 2 /\ f[1] = "0" /\ IsDigit(f[2]) /\ f[2] # "0"
    \/ Len(f) = 1 /\ IsDigit(f[1]) /\ f[1] # "0"

\* the directive %d: 3[0-1] | [1-2]\d | 0[1-9] | [1-9] | " "[1-9]
MatchesD(f) ==
    \/ Len(f) = 2 /\ f[1] = "3" /\ f[2] \in {"0", "1"}
    \/ Len(f) = 2 /\ f[1] \in {"1", "2"} /\ IsDigit(f[2])
    \/ Len(f) = 2 /\ f[1] \in {"0", " "} /\ IsDigit(f[2]) /\ f[2] # "0"
    \/ Len(f) = 1 /\ IsDigit(f[1]) /\ f[1] # "0"

RECURSIVE NumVal(_)
NumVal(f) ==
    IF f = <<>> THEN 0
    ELSE IF IsDigit(f[Len(f)])
         THEN 10 * NumVal(SubSeq(f, 1, Len(f) - 1)) + DigitVal(f[Len(f)])
         ELSE NumVal(SubSeq(f, 1, Len(f) - 1))

IsLeap(y) == y % 4 = 0 /\ (y % 100 # 0 \/ y % 400 = 0)

DaysInMonth(y, m) ==
    IF m = 2 THEN (IF IsLeap(y) THEN 29 ELSE 28)
    ELSE IF m \in {4, 6, 9, 11} THEN 30 ELSE 31

RECURSIVE DaysBeforeMonth(_, _)
DaysBeforeMonth(y, m) ==
    IF m = 1 THEN 0 ELSE DaysBeforeMonth(y, m - 1) + DaysInMonth(y, m - 1)

\* date.toordinal(): 1 is 0001-01-01
toordinal(y, m, d) ==
    (y - 1) * 365 + ((y - 1) \div 4) - ((y - 1) \div 100) + ((y - 1) \div 400)
    + DaysBeforeMonth(y, m) + d

\* [ok |-> FALSE] stands for the ValueError strptime raises
strptime(s) ==
    LET f == split(s, "-") IN
    IF Len(f) = 3 /\ MatchesY(f[1]) /\ MatchesM(f[2]) /\ MatchesD(f[3])
    THEN LET y == NumVal(f[1])
             m == NumVal(f[2])
             d == NumVal(f[3])
         IN  IF y >= 1 /\ d <= DaysInMonth(y, m)
             THEN [ok |-> TRUE, ord |-> toordinal(y, m, d)]
             ELSE [ok |-> FALSE, ord |-> 0]
    ELSE [ok |-> FALSE, ord |-> 0]

\* int(s) of a stripped line: an optional sign and decimal digits
IsIntLiteral(s) ==
    LET digits == IF s # <<>> /\ s[1] \in {"+", "-"} THEN Tail(s) ELSE s
    IN  digits # <<>> /\ \A i \in 1..Len(digits) : IsDigit(digits[i])

int(s) == IF s[1] = "-" THEN 0 - NumVal(Tail(s)) ELSE NumVal(s)

----------------------------------------------------------------------------
(* TravelRequest                                                           *)

FieldNames ==
    {"origin", "destinations", "start_date", "end_date", "duration",
     "budget_range", "travel_style", "interests", "group_size",
     "special_requirements"}

RequiredFields == FieldNames \ {"special_requirements"}

PostInitKeepsNone(special) == special

\* __post_init__: None becomes the empty list
post_init(special) == IF special = PyNone THEN PyList(<<>>) ELSE special

\* the generated __init__ (special_requirements defaults to None) followed
\* by __post_init__; args is the mapping of the keyword arguments passed
TravelRequest(args) ==
    LET given == IF "special_requirements" \in DOMAIN args
                 THEN args["special_requirements"] ELSE PyNone
    IN  [f \in FieldNames |->
            IF f = "special_requirements" THEN post_init(given) ELSE args[f]]

\* asdict(self): one key per dataclass field, each value copied
to_dict(req) == [f \in FieldNames |-> req[f]]

----------------------------------------------------------------------------
(* TravelPlannerApp._get_user_input                                        *)

DefaultDuration == 7

DefaultGroupSize == 1

S_budget == <<"b", "u", "d", "g", "e", "t">>
S_mid_range == <<"m", "i", "d", "-", "r", "a", "n", "g", "e">>
S_luxury == <<"l", "u", "x", "u", "r", "y">>
S_relaxed == <<"r", "e", "l", "a", "x", "e", "d">>
S_adventure == <<"a", "d", "v", "e", "n", "t", "u", "r", "e">>
S_cultural == <<"c", "u", "l", "t", "u", "r", "a", "l">>
S_romantic == <<"r", "o", "m", "a", "n", "t", "i", "c">>
S_business == <<"b", "u", "s", "i", "n", "e", "s", "s">>
S_sightseeing == <<"s", "i", "g", "h", "t", "s", "e", "e", "i", "n", "g">>
S_local_culture == <<"l", "o", "c", "a", "l", " ", "c", "u", "l", "t", "u", "r", "e">>

budget_options == <<S_budget, S_mid_range, S_luxury>>

style_options == <<S_relaxed, S_adventure, S_cultural, S_romantic, S_business>>

default_interests == <<S_sightseeing, S_local_culture>>

Contains(list, x) == \E i \in 1..Len(list) : list[i] = x

calc_duration_negative_only(start_date, end_date) ==
    LET start == strptime(start_date)
        end == strptime(end_date)
    IN  IF start.ok /\ end.ok
        THEN [duration |-> IF end.ord - start.ord < 0 THEN DefaultDuration
                           ELSE end.ord - start.ord,
              warned |-> FALSE]
        ELSE [duration |-> DefaultDuration, warned |-> TRUE]

\* the try block computing duration: a ValueError of either strptime, or a
\* duration <= 0, gives the default
calc_duration(start_date, end_date) ==
    LET start == strptime(start_date)
        end == strptime(end_date)
    IN  IF start.ok /\ end.ok
        THEN [duration |-> IF end.ord - start.ord <= 0 THEN DefaultDuration
                           ELSE end.ord - start.ord,
              warned |-> FALSE]
        ELSE [duration |-> DefaultDuration, warned |-> TRUE]

parse_group_size(line) ==
    LET s == strip(line) IN
    IF s = <<>> THEN DefaultGroupSize
    ELSE IF IsIntLiteral(s) THEN int(s) ELSE DefaultGroupSize

choose_option_case_sensitive(line, options, default) ==
    IF Contains(options, strip(line)) THEN strip(line) ELSE default

\* input(...).strip().lower(), then the membership test with its default
choose_option(line, options, default) ==
    LET v == lower(strip(line)) IN
    IF Contains(options, v) THEN v ELSE default

StripAll(parts) == [i \in 1..Len(parts) |-> strip(parts[i])]

parse_interests_unfiltered(line) ==
    LET interests == StripAll(split(strip(line), ","))
    IN  IF interests = <<>> THEN default_interests ELSE interests

\* [i.strip() for i in interests_input.split(',') if i.strip()], then the default
parse_interests(line) ==
    LET interests == SelectSeqNonEmpty(StripAll(split(strip(line), ",")))
    IN  IF interests = <<>> THEN default_interests ELSE interests

\* typed is the record of the lines entered at the nine prompts
get_user_input(typed) ==
    LET start_date == strip(typed.start_date)
        end_date == strip(typed.end_date)
        special_req == strip(typed.special_req)
    IN  TravelRequest(
          [origin |-> strip(typed.origin),
           destinations |-> StripAll(split(strip(typed.destinations), ",")),
           start_date |-> start_date,
           end_date |-> end_date,
           duration |-> calc_duration(start_date, end_date).duration,
           budget_range |-> choose_option(typed.budget_range, budget_options, S_mid_range),
           travel_style |-> choose_option(typed.travel_style, style_options, S_relaxed),
           interests |-> parse_interests(typed.interests),
           group_size |-> parse_group_size(typed.group_size),
           special_requirements |->
               PyList(IF special_req # <<>> THEN <<special_req>> ELSE <<>>)])

----------------------------------------------------------------------------
(* The input collection run on its own: every combination of typed lines   *)

\* lines typed at the date prompts
DateLines ==
    {<<"2", "0", "2", "4", "-", "0", "2", "-", "2", "8">>, <<"2", "0", "2", "4", "-", "0", "3", "-", "0", "1">>, <<"2", "0", "2", "3", "-", "0", "2", "-", "2", "8">>, <<"2", "0", "2", "3", "-", "0", "3", "-", "0", "1">>,
     <<"2", "0", "2", "4", "-", "0", "3", "-", "0", "8", " ">>, <<"2", "0", "2", "4", "-", "2", "-", "9">>, <<"2", "0", "2", "3", "-", "0", "2", "-", "2", "9">>, <<"2", "0", "2", "4", "/", "0", "3", "/", "0", "1">>,
     <<"2", "0", "2", "4", "-", "1", "3", "-", "0", "1">>, <<"0", "0", "0", "0", "-", "0", "1", "-", "0", "1">>, <<>>}

BudgetLines == {<<"l", "u", "x", "u", "r", "y">>, <<" ", "B", "u", "d", "g", "e", "t", " ">>, <<"c", "h", "e", "a", "p">>, <<>>}

StyleLines == {<<"A", "D", "V", "E", "N", "T", "U", "R", "E">>, <<"b", "u", "s", "i", "n", "e", "s", "s", " ">>, <<"p", "a", "r", "t", "y">>, <<>>}

GroupLines == {<<>>, <<"3">>, <<"x">>}

\* the comma-separated entries the interests line is made of
InterestEntries == {<<>>, <<" ">>, <<"a", "r", "t">>, <<" ", "f", "o", "o", "d">>}

\* the interests line holds at most MaxEntries comma-separated entries
MaxEntries == 2

RECURSIVE EntryLists(_)
EntryLists(n) ==
    IF n = 0 THEN {<<>>}
    ELSE LET shorter == EntryLists(n - 1)
         IN  shorter \cup
             {<<e>> \o l : e \in InterestEntries, l \in {x \in shorter : Len(x) = n - 1}}

InterestLines == {join(<<",">>, l) : l \in EntryLists(MaxEntries) \ {<<>>}}

TypedLines ==
    [origin : {<<" ", "P", "u", "n", "e">>},
     destinations : {<<"R", "o", "m", "e", ",", " ", "O", "s", "l", "o">>},
     start_date : DateLines,
     end_date : DateLines,
     group_size : GroupLines,
     budget_range : BudgetLines,
     travel_style : StyleLines,
     interests : InterestLines,
     special_req : {<<>>}]

ReqIdle == ctorArgs = PyNone /\ dict = PyNone

CalcIdle == operation = <<>> /\ evaluated = FALSE /\ toolResult = ""

HttpIdle == body = PyNone /\ response = PyNone

CliIdle ==
    /\ entry = "none" /\ env = PyNone /\ initialised = {} /\ remoteCalls = 0
    /\ out = <<>> /\ result = <<>> /\ tasks = <<>> /\ issued = <<>>
    /\ inProgress = {} /\ completed = <<>> /\ files = <<>> /\ clock = 0
    /\ runs = 0 /\ mainOutcome = How("none") /\ planOutcome = How("none")
    /\ written = {} /\ faults = {}

InIdle == inputs = PyNone /\ request = PyNone /\ warned = FALSE

SavesIdle == saves = <<>>

InitInput ==
    /\ pc = "prompting"
    /\ inputs \in TypedLines
    /\ request = PyNone
    /\ warned = FALSE
    /\ ReqIdle /\ CalcIdle /\ HttpIdle /\ CliIdle /\ SavesIdle

\* _get_user_input reads the nine lines and returns the TravelRequest
GetUserInput ==
    /\ pc = "prompting"
    /\ request' = get_user_input(inputs)
    /\ warned' = calc_duration(strip(inputs.start_date), strip(inputs.end_date)).warned
    /\ pc' = "returned"
    /\ UNCHANGED <<inputs, reqVars, calcVars, httpVars, cliVars, saves>>

NextInput == GetUserInput

SpecInput == InitInput /\ [][NextInput]_vars

----------------------------------------------------------------------------
(* TravelRequest constructed directly and serialised                       *)

CtorRequired ==
    [origin : {<<"P", "u", "n", "e">>, <<>>},
     destinations : {<<<<"R", "o", "m", "e">>>>, <<>>},
     start_date : {<<"2", "0", "2", "4", "-", "0", "3", "-", "0", "1">>},
     end_date : {<<"2", "0", "2", "4", "-", "0", "3", "-", "0", "8">>},
     duration : {7, 0, -1},
     budget_range : {S_luxury, <<"c", "h", "e", "a", "p">>},
     travel_style : {S_relaxed},
     interests : {<<<<"a", "r", "t">>>>},
     group_size : {1, 0}]

SpecialLists == {<<>>, <<<<"w", "h", "e", "e", "l", "c", "h", "a", "i", "r">>>>, <<<<"v", "e", "g", "a", "n">>, <<>>>>}

WithSpecial(args, special) ==
    [f \in FieldNames |->
        IF f = "special_requirements" THEN special ELSE args[f]]

\* special_requirements omitted, passed as None, or passed as a list
CtorArgs ==
    CtorRequired
    \cup {WithSpecial(a, PyNone) : a \in CtorRequired}
    \cup {WithSpecial(a, PyList(l)) : a \in CtorRequired, l \in SpecialLists}

InitRequest ==
    /\ pc = "constructing"
    /\ ctorArgs \in CtorArgs
    /\ dict = PyNone
    /\ InIdle /\ CalcIdle /\ HttpIdle /\ CliIdle /\ SavesIdle

Construct ==
    /\ pc = "constructing"
    /\ request' = TravelRequest(ctorArgs)
    /\ pc' = "constructed"
    /\ UNCHANGED <<inputs, warned, ctorArgs, dict, calcVars, httpVars, cliVars, saves>>

ToDict ==
    /\ pc = "constructed"
    /\ dict' = to_dict(request)
    /\ pc' = "serialised"
    /\ UNCHANGED <<inVars, ctorArgs, calcVars, httpVars, cliVars, saves>>

NextRequest == Construct \/ ToDict

SpecRequest == InitRequest /\ [][NextRequest]_vars

----------------------------------------------------------------------------
(* TravelTools.calculate_expenses                                          *)

\* set('0123456789+-*/.() ')
allowed_chars ==
    {Digits[i] : i \in 1..Len(Digits)} \cup {"+", "-", "*", "/", ".", "(", ")", " "}

chars_allowed_any(op) == \E i \in 1..Len(op) : op[i] \in allowed_chars

\* all(c in allowed_chars for c in operation)
chars_allowed(op) == \A i \in 1..Len(op) : op[i] \in allowed_chars

InvalidCharsMsg == "Error: Invalid characters in expression"

\* what follows a passed check: eval(operation) gives a number, which is
\* formatted, or eval or the formatting raises and the handler reports it
EvalOutcomes == {"Calculation: {operation} = {result:,.2f}", "Calculation error: {e}"}

\* the characters expressions are drawn from: allowed ones, a tab, and
\* characters that would let eval reach names and calls
OpChars == {"1", "+", "(", ".", " ", "\t", "a", "_"}

\* expressions hold at most MaxOpLen characters
MaxOpLen == 3

RECURSIVE OpsOfLen(_)
OpsOfLen(n) ==
    IF n = 0 THEN {<<>>}
    ELSE {<<c>> \o s : c \in OpChars, s \in OpsOfLen(n - 1)}

Operations == UNION {OpsOfLen(n) : n \in 0..MaxOpLen}

InitCalc ==
    /\ pc = "tool_called"
    /\ operation \in Operations
    /\ evaluated = FALSE
    /\ toolResult = ""
    /\ InIdle /\ ReqIdle /\ HttpIdle /\ CliIdle /\ SavesIdle

\* the character check fails: the error string is returned before eval
CalculateRejects ==
    /\ pc = "tool_called"
    /\ ~chars_allowed(operation)
    /\ toolResult' = InvalidCharsMsg
    /\ pc' = "tool_returned"
    /\ UNCHANGED <<operation, evaluated, inVars, reqVars, httpVars, cliVars, saves>>

\* the character check passes: eval(operation) runs
CalculateEvaluates ==
    /\ pc = "tool_called"
    /\ chars_allowed(operation)
    /\ evaluated' = TRUE
    /\ toolResult' \in EvalOutcomes
    /\ pc' = "tool_returned"
    /\ UNCHANGED <<operation, inVars, reqVars, httpVars, cliVars, saves>>

NextCalc == CalculateRejects \/ CalculateEvaluates

SpecCalc == InitCalc /\ [][NextCalc]_vars

----------------------------------------------------------------------------
(* main.py: the handler of POST /plan                                      *)

JsonNull == [json |-> "null"]

JsonString(s) == [json |-> "string", value |-> s]

JsonArray(a) == [json |-> "array", items |-> a]

JsonObject(o) == [json |-> "object", members |-> o]

PlanKeys == {"origin", "destination", "interests"}

MemberValues ==
    [origin : {JsonNull, JsonString(<<"P", "u", "n", "e">>)},
     destination : {JsonNull, JsonString(<<"R", "o", "m", "e">>)},
     interests : {JsonArray(<<<<"a", "r", "t">>>>), JsonString(<<"a", "r", "t">>)}]

Restrict(f, keys) == [k \in keys |-> f[k]]

\* JSON objects holding any subset of the three keys
JsonObjects ==
    {JsonObject(Restrict(m, keys)) : m \in MemberValues, keys \in SUBSET PlanKeys}

\* a body that parses as JSON: an object, or another JSON value
JsonBodies == JsonObjects \cup {JsonNull, JsonArray(<<>>), JsonString(<<"R", "o", "m", "e">>)}

\* a body that is not JSON at all, or is sent without the JSON content type
NonJsonBodies == {[json |-> "malformed"], [json |-> "wrong content type"]}

Bodies == JsonBodies \cup NonJsonBodies


Returned(status, key, text) == [status |-> status, key |-> key, text |-> text]

\* request.get_json(): the parsed value, None, or an HTTP error raised
get_json_outcomes(b) ==
    IF b \in JsonBodies THEN {b}
    ELSE IF b.json = "malformed" THEN {Raised("BadRequest")}
    ELSE {Raised("UnsupportedMediaType"), JsonNull}

InitHttp ==
    /\ pc = "request_received"
    /\ body \in Bodies
    /\ response = PyNone
    /\ InIdle /\ ReqIdle /\ CalcIdle /\ CliIdle /\ SavesIdle

\* get_json() raises: the exception leaves plan_trip
PlanTripGetJsonRaises ==
    /\ pc = "request_received"
    /\ \E data \in get_json_outcomes(body) :
          /\ "raised" \in DOMAIN data
          /\ response' = data
    /\ pc' = "handler_left"
    /\ UNCHANGED <<body, inVars, reqVars, calcVars, cliVars, saves>>

\* data is not a dict: data.get raises AttributeError before the try block
PlanTripDataGetRaises ==
    /\ pc = "request_received"
    /\ \E data \in get_json_outcomes(body) :
          /\ "raised" \notin DOMAIN data
          /\ data.json # "object"
          /\ response' = Raised("AttributeError")
    /\ pc' = "handler_left"
    /\ UNCHANGED <<body, inVars, reqVars, calcVars, cliVars, saves>>

\* the try block: TravelCrew().run(origin, destination, interests) returns
PlanTripSucceeds ==
    /\ pc = "request_received"
    /\ \E data \in get_json_outcomes(body) :
          /\ "raised" \notin DOMAIN data
          /\ data.json = "object"
          /\ \E itinerary \in {"itinerary A", "itinerary B"} :
                response' = Returned(200, "itinerary", itinerary)
    /\ pc' = "handler_left"
    /\ UNCHANGED <<body, inVars, reqVars, calcVars, cliVars, saves>>

\* the try block: TravelCrew() or run(...) raises, caught by except Exception
PlanTripFails ==
    /\ pc = "request_received"
    /\ \E data \in get_json_outcomes(body) :
          /\ "raised" \notin DOMAIN data
          /\ data.json = "object"
          /\ \E e \in {"crew failed", ""} :
                response' = Returned(500, "error", e)
    /\ pc' = "handler_left"
    /\ UNCHANGED <<body, inVars, reqVars, calcVars, cliVars, saves>>

NextHttp ==
    \/ PlanTripGetJsonRaises
    \/ PlanTripDataGetRaises
    \/ PlanTripSucceeds
    \/ PlanTripFails

SpecHttp == InitHttp /\ [][NextHttp]_vars

----------------------------------------------------------------------------
(* crew.py: the CLI flow, and config.py loaded as a module                 *)

EnvValues == {"absent", "empty", "set"}

\* os.getenv(name) is truthy: the variable is set to a non-empty string
getenv(e, name) == e[name] = "set"

main_checks_google_only(e) ==
    IF ~getenv(e, "GOOGLE_API_KEY") THEN "GOOGLE_API_KEY" ELSE ""

\* main(): the credential checked and found missing ("" when both are there)
missing_credential(e) ==
    IF ~getenv(e, "GOOGLE_API_KEY") THEN "GOOGLE_API_KEY"
    ELSE IF ~getenv(e, "SERPER_API_KEY") THEN "SERPER_API_KEY"
    ELSE ""

\* KeyboardInterrupt derives from BaseException, the others from Exception
IsException(class) == class # "KeyboardInterrupt"

except_nothing(class) == FALSE

\* an "except Exception" clause
except_Exception(class) == IsException(class)

ErrorPrefix == "Error during travel planning: "

\* f"Error during travel planning: {str(e)}"
error_text(e) == <<ErrorPrefix, e>>

\* str(result) of the crew's output: its raw text
str(crew_output) == <<crew_output.raw>>

\* the texts a finished crew run can return
CrewOutputs ==
    {[raw |-> "itinerary A"], [raw |-> "itinerary B"], [raw |-> ""]}

create_tasks_itinerary_first(req) ==
    << [name |-> "complete_itinerary", agent |-> "travel_concierge",
        dependencies |-> <<>>],
       [name |-> "destination_analysis", agent |-> "destination_analyst",
        dependencies |-> <<"complete_itinerary">>],
       [name |-> "local_expert_insights", agent |-> "local_expert",
        dependencies |-> <<"complete_itinerary", "destination_analysis">>] >>

\* create_tasks: the three Task objects, in the order returned
create_tasks(req) ==
    << [name |-> "destination_analysis", agent |-> "destination_analyst",
        dependencies |-> <<>>],
       [name |-> "local_expert_insights", agent |-> "local_expert",
        dependencies |-> <<"destination_analysis">>],
       [name |-> "complete_itinerary", agent |-> "travel_concierge",
        dependencies |-> <<"destination_analysis", "local_expert_insights">>] >>

report_path_ignores_time(timestamp) ==
    [dir |-> "reports", name |-> <<"travel_plan_", 0, ".md">>]

\* REPORTS_DIR / f"travel_plan_{timestamp}.md", timestamp to the second
report_path(timestamp) ==
    [dir |-> "reports", name |-> <<"travel_plan_", timestamp, ".md">>]

report_content_without_plan(res, req, generated_on) ==
    << [heading |-> "# Travel Plan", generated_on |-> generated_on],
       [heading |-> "## Trip Summary",
        origin |-> req.origin,
        destinations |-> join(<<",", " ">>, req.destinations),
        start_date |-> req.start_date,
        end_date |-> req.end_date,
        duration |-> req.duration,
        group_size |-> req.group_size,
        budget |-> req.budget_range,
        travel_style |-> req.travel_style,
        interests |-> join(<<",", " ">>, req.interests)],
       [heading |-> "## Travel Plan", text |-> <<>>],
       [heading |-> "*Generated by AI Travel Planner*"] >>

\* the markdown _save_plan writes: header, trip summary, the result, footer
report_content(res, req, generated_on) ==
    << [heading |-> "# Travel Plan", generated_on |-> generated_on],
       [heading |-> "## Trip Summary",
        origin |-> req.origin,
        destinations |-> join(<<",", " ">>, req.destinations),
        start_date |-> req.start_date,
        end_date |-> req.end_date,
        duration |-> req.duration,
        group_size |-> req.group_size,
        budget |-> req.budget_range,
        travel_style |-> req.travel_style,
        interests |-> join(<<",", " ">>, req.interests)],
       [heading |-> "## Travel Plan", text |-> res],
       [heading |-> "*Generated by AI Travel Planner*"] >>

\* open(filepath, 'w') truncated the file and the write did not happen
TruncatedFile == <<>>

\* the lines typed in the CLI runs
CliLines ==
    {[origin |-> <<"P", "u", "n", "e">>, destinations |-> <<"R", "o", "m", "e", ",", " ", "O", "s", "l", "o">>,
      start_date |-> <<"2", "0", "2", "4", "-", "0", "2", "-", "2", "8">>, end_date |-> <<"2", "0", "2", "4", "-", "0", "3", "-", "0", "1">>,
      group_size |-> <<"2">>, budget_range |-> <<"l", "u", "x", "u", "r", "y">>,
      travel_style |-> <<"C", "u", "l", "t", "u", "r", "a", "l">>, interests |-> <<"a", "r", "t", ",", " ", "f", "o", "o", "d">>,
      special_req |-> <<>>],
     [origin |-> <<>>, destinations |-> <<>>,
      start_date |-> <<"t", "o", "m", "o", "r", "r", "o", "w">>, end_date |-> <<>>,
      group_size |-> <<"t", "w", "o">>, budget_range |-> <<>>,
      travel_style |-> <<>>, interests |-> <<",">>,
      special_req |-> <<"v", "e", "g", "a", "n">>]}

\* processes started one after the other share the reports directory
MaxRuns == 2

\* the wall clock runs from 0 to MaxClock seconds
MaxClock == 1

ProcessStart ==
    /\ initialised = {} /\ remoteCalls = 0 /\ out = <<>> /\ result = <<>>
    /\ tasks = <<>> /\ issued = <<>> /\ inProgress = {} /\ completed = <<>>
    /\ mainOutcome = How("running") /\ planOutcome = How("none")
    /\ written = {} /\ faults = {}
    /\ inputs = PyNone /\ request = PyNone /\ warned = FALSE

Init ==
    /\ entry \in {"main", "config"}
    /\ pc = entry
    /\ env \in [{"GOOGLE_API_KEY", "SERPER_API_KEY"} -> EnvValues]
    /\ files = <<>>
    /\ clock = 0
    /\ runs = 1
    /\ ProcessStart
    /\ ReqIdle /\ CalcIdle /\ HttpIdle /\ SavesIdle

Idle == <<reqVars, calcVars, httpVars, saves>>

\* main(): a credential is missing, the message is printed and main returns
MainMissingCredential ==
    /\ pc = "main"
    /\ missing_credential(env) # ""
    /\ out' = Append(out, [msg |-> "Error: not found in environment variables",
                           name |-> missing_credential(env)])
    /\ faults' = faults \cup {"missing credentials"}
    /\ mainOutcome' = How("returned")
    /\ pc' = "exited"
    /\ UNCHANGED <<inVars, Idle, entry, env, initialised, remoteCalls, result,
                   crewVars, files, clock, runs, planOutcome, written>>

\* main(): both credentials are there, TravelPlannerApp() is entered
MainStartsApp ==
    /\ pc = "main"
    /\ missing_credential(env) = ""
    /\ pc' = "initialize_llm"
    /\ UNCHANGED <<inVars, Idle, cliVars>>

\* an exception raised while TravelPlannerApp() is constructed reaches the
\* except clause of main()
StartupFails(class, fault) ==
    /\ faults' = faults \cup {fault}
    /\ pc' = "exited"
    /\ IF except_Exception(class)
       THEN /\ out' = Append(out, [msg |-> "Startup error", e |-> class])
            /\ mainOutcome' = How("returned")
       ELSE /\ out' = out
            /\ mainOutcome' = Raised(class)

\* _initialize_llm: the key check, ChatVertexAI(...), the test call
\* llm.invoke("Hello"); any exception is logged and raised again
InitializeLlm ==
    /\ pc = "initialize_llm"
    /\ \E outcome \in {"ok", "ChatVertexAI raises", "invoke raises"} :
          IF ~getenv(env, "GOOGLE_API_KEY")
          THEN /\ StartupFails("ValueError", "llm initialisation")
               /\ UNCHANGED <<initialised, remoteCalls>>
          ELSE IF outcome = "ChatVertexAI raises"
          THEN /\ StartupFails("RuntimeError", "llm initialisation")
               /\ UNCHANGED <<initialised, remoteCalls>>
          ELSE IF outcome = "invoke raises"
          THEN /\ StartupFails("RuntimeError", "llm initialisation")
               /\ remoteCalls' = remoteCalls + 1
               /\ UNCHANGED initialised
          ELSE /\ remoteCalls' = remoteCalls + 1
               /\ initialised' = initialised \cup {"llm"}
               /\ pc' = "create_agents"
               /\ UNCHANGED <<out, mainOutcome, faults>>
    /\ UNCHANGED <<inVars, Idle, entry, env, result, crewVars, files, clock,
                   runs, planOutcome, written>>

\* TravelPlannerAgents.__init__ continues: TravelTools(), _create_agents()
CreateToolsAndAgents ==
    /\ pc = "create_agents"
    /\ initialised' = initialised \cup {"tools", "agents"}
    /\ pc' = "get_user_input"
    /\ UNCHANGED <<inVars, Idle, entry, env, remoteCalls, out, result, crewVars,
                   files, clock, runs, mainOutcome, planOutcome, written, faults>>

\* an exception raised in the try block of run_cli: "except KeyboardInterrupt",
\* then "except Exception"; run_cli and main() then return
RunCliCatches(class) ==
    /\ out' = Append(out, IF class = "KeyboardInterrupt"
                          THEN [msg |-> "Planning cancelled by user"]
                          ELSE [msg |-> "Error", e |-> class])
    /\ mainOutcome' = How("returned")
    /\ pc' = "exited"

\* run_cli: _get_user_input returns the request
RunCliGetsInput ==
    /\ pc = "get_user_input"
    /\ \E typed \in CliLines :
          /\ inputs' = typed
          /\ request' = get_user_input(typed)
          /\ warned' = calc_duration(strip(typed.start_date),
                                     strip(typed.end_date)).warned
    /\ pc' = "plan_trip"
    /\ UNCHANGED <<Idle, cliVars>>

\* run_cli: an input() call raises (end of input, Ctrl-C)
RunCliInputRaises ==
    /\ pc = "get_user_input"
    /\ \E class \in {"EOFError", "KeyboardInterrupt"} :
          /\ RunCliCatches(class)
          /\ faults' = faults \cup {IF IsException(class) THEN "input"
                                    ELSE "cancelled"}
    /\ UNCHANGED <<inVars, Idle, entry, env, initialised, remoteCalls, result,
                   crewVars, files, clock, runs, planOutcome, written>>

after_plan_trip_skips_errors(res) ==
    IF res # <<>> /\ res[1] = ErrorPrefix THEN "exited" ELSE "display_results"

\* run_cli: whatever text plan_trip returned goes on to _display_results
after_plan_trip(res) == "display_results"

\* plan_trip catches an exception of its try block and returns the error text
PlanTripReturnsError(class) ==
    /\ result' = error_text(class)
    /\ planOutcome' = How("returned")
    /\ faults' = faults \cup {"workflow"}
    /\ pc' = after_plan_trip(error_text(class))
    /\ UNCHANGED <<out, mainOutcome>>

\* plan_trip: create_tasks(request) and Crew(..., process=Process.sequential)
PlanTripCreatesCrew ==
    /\ pc = "plan_trip"
    /\ \E ok \in BOOLEAN :
          IF ok
          THEN /\ tasks' = create_tasks(request)
               /\ pc' = "kickoff"
               /\ UNCHANGED <<result, planOutcome, faults, out, mainOutcome>>
          ELSE /\ PlanTripReturnsError("ValidationError")
               /\ UNCHANGED tasks
    /\ UNCHANGED <<inVars, Idle, entry, env, initialised, remoteCalls, issued,
                   inProgress, completed, files, clock, runs, written>>

\* crew.kickoff under the sequential process: the next task of the list is
\* handed to its agent once nothing is in progress
KickoffIssuesTask ==
    /\ pc = "kickoff"
    /\ inProgress = {}
    /\ Len(issued) < Len(tasks)
    /\ LET task == tasks[Len(issued) + 1] IN
          /\ issued' = Append(issued, task.name)
          /\ inProgress' = {task.name}
    /\ remoteCalls' = remoteCalls + 1
    /\ UNCHANGED <<pc, inVars, Idle, entry, env, initialised, out, result, tasks,
                   completed, files, clock, runs, mainOutcome, planOutcome,
                   written, faults>>

\* the step in progress finishes; after the last one kickoff returns and
\* plan_trip returns str(result)
KickoffTaskCompletes ==
    /\ pc = "kickoff"
    /\ \E name \in inProgress :
          /\ inProgress' = inProgress \ {name}
          /\ completed' = Append(completed, name)
          /\ IF Len(completed) + 1 = Len(tasks)
             THEN /\ \E crew_output \in CrewOutputs : result' = str(crew_output)
                  /\ planOutcome' = How("returned")
                  /\ pc' = after_plan_trip(result')
             ELSE UNCHANGED <<result, planOutcome, pc>>
    /\ UNCHANGED <<inVars, Idle, entry, env, initialised, remoteCalls, out,
                   tasks, issued, files, clock, runs, mainOutcome, written,
                   faults>>

\* the step in progress raises: plan_trip's "except Exception" turns an
\* Exception into the error text; a KeyboardInterrupt passes through
\* plan_trip and is caught by run_cli
KickoffTaskRaises ==
    /\ pc = "kickoff"
    /\ \E name \in inProgress, class \in {"RuntimeError", "KeyboardInterrupt"} :
          /\ inProgress' = inProgress \ {name}
          /\ IF except_Exception(class)
             THEN PlanTripReturnsError(class)
             ELSE /\ planOutcome' = Raised(class)
                  /\ RunCliCatches(class)
                  /\ faults' = faults \cup {"cancelled"}
                  /\ UNCHANGED result
    /\ UNCHANGED <<inVars, Idle, entry, env, initialised, remoteCalls, tasks,
                   issued, completed, files, clock, runs, written>>

\* run_cli: _display_results(result)
DisplayResults ==
    /\ pc = "display_results"
    /\ out' = Append(out, [msg |-> "YOUR TRAVEL PLAN IS READY", text |-> result])
    /\ pc' = "save_plan"
    /\ UNCHANGED <<inVars, Idle, entry, env, initialised, remoteCalls, result,
                   crewVars, files, clock, runs, mainOutcome, planOutcome,
                   written, faults>>

\* time passes; only _save_plan reads the clock
Tick ==
    /\ pc = "save_plan"
    /\ clock < MaxClock
    /\ clock' = clock + 1
    /\ UNCHANGED <<pc, inVars, Idle, entry, env, initialised, remoteCalls, out,
                   result, crewVars, files, runs, mainOutcome, planOutcome,
                   written, faults>>

\* run_cli: _save_plan(result, request); datetime.now() is read for the file
\* name and again for the "Generated on" line; a failure of open or write is
\* caught and reported; run_cli and main() then return
SavePlan ==
    /\ pc = "save_plan"
    /\ \E generated_on \in {clock, IF clock < MaxClock THEN clock + 1 ELSE clock},
          outcome \in {"written", "open raises", "write raises"} :
          LET filepath == report_path(clock) IN
          /\ clock' = generated_on
          /\ IF outcome = "written"
             THEN /\ files' = (filepath :> report_content(result, request, generated_on))
                              @@ files
                  /\ written' = written \cup {filepath}
                  /\ out' = Append(out, [msg |-> "Travel plan saved to",
                                         filepath |-> filepath])
                  /\ UNCHANGED faults
             ELSE /\ IF outcome = "write raises"
                     THEN /\ files' = (filepath :> TruncatedFile) @@ files
                          /\ written' = written \cup {filepath}
                     ELSE UNCHANGED <<files, written>>
                  /\ out' = Append(out, [msg |-> "Could not save travel plan",
                                         e |-> "OSError"])
                  /\ faults' = faults \cup {"save"}
    /\ mainOutcome' = How("returned")
    /\ pc' = "exited"
    /\ UNCHANGED <<inVars, Idle, entry, env, initialised, remoteCalls, result,
                   crewVars, runs, planOutcome>>

\* config.py: GOOGLE_API_KEY is missing, the import ends with ValueError
ConfigRaises ==
    /\ pc = "config"
    /\ ~getenv(env, "GOOGLE_API_KEY")
    /\ mainOutcome' = Raised("ValueError")
    /\ faults' = faults \cup {"missing credentials"}
    /\ pc' = "exited"
    /\ UNCHANGED <<inVars, Idle, entry, env, initialised, remoteCalls, out,
                   result, crewVars, files, clock, runs, planOutcome, written>>

\* config.py: GOOGLE_API_KEY is there, the three status lines are printed
ConfigLoads ==
    /\ pc = "config"
    /\ getenv(env, "GOOGLE_API_KEY")
    /\ out' = out \o
          << [msg |-> "Configuration loaded - CrewAI will use Gemini exclusively"],
             [msg |-> "Google API Key loaded", loaded |-> getenv(env, "GOOGLE_API_KEY")],
             [msg |-> "Serper API Key loaded", loaded |-> getenv(env, "SERPER_API_KEY")] >>
    /\ mainOutcome' = How("loaded")
    /\ pc' = "exited"
    /\ UNCHANGED <<inVars, Idle, entry, env, initialised, remoteCalls, result,
                   crewVars, files, clock, runs, planOutcome, written, faults>>

\* the program is started again, in the same environment and directory
Restart ==
    /\ pc = "exited"
    /\ runs < MaxRuns
    /\ runs' = runs + 1
    /\ pc' = entry
    /\ initialised' = {} /\ remoteCalls' = 0 /\ out' = <<>> /\ result' = <<>>
    /\ tasks' = <<>> /\ issued' = <<>> /\ inProgress' = {} /\ completed' = <<>>
    /\ mainOutcome' = How("running") /\ planOutcome' = How("none")
    /\ written' = {} /\ faults' = {}
    /\ inputs' = PyNone /\ request' = PyNone /\ warned' = FALSE
    /\ UNCHANGED <<Idle, entry, env, files, clock>>

Next ==
    \/ MainMissingCredential
    \/ MainStartsApp
    \/ InitializeLlm
    \/ CreateToolsAndAgents
    \/ RunCliGetsInput
    \/ RunCliInputRaises
    \/ PlanTripCreatesCrew
    \/ KickoffIssuesTask
    \/ KickoffTaskCompletes
    \/ KickoffTaskRaises
    \/ DisplayResults
    \/ Tick
    \/ SavePlan
    \/ ConfigRaises
    \/ ConfigLoads
    \/ Restart

Spec == Init /\ [][Next]_vars

----------------------------------------------------------------------------
(* _save_plan called by several processes that share the reports directory.
   Each process runs main() once and so calls _save_plan once; the call is
   taken in its two file operations, open(filepath, 'w') and f.write(content),
   so that the calls of different processes can overlap.                     *)

\* the processes saving a plan
MaxProcs == 2

Procs == 1..MaxProcs

\* the texts plan_trip returned in these processes
SavedTexts == {str(crew_output) : crew_output \in {[raw |-> "itinerary A"], [raw |-> "itinerary B"]}}

\* the request of these processes
SavedRequest ==
    get_user_input(CHOOSE typed \in CliLines : typed.origin = <<>>)

\* a process that has not reached open() yet
NotOpened ==
    [pc |-> "ready", second |-> 0, filepath |-> PyNone, content |-> <<>>,
     found |-> <<>>, overlapped |-> FALSE, left |-> <<>>, raised |-> FALSE]

\* the file was written by one process between another's open and write
MixedFile == <<[heading |-> "parts of two reports"]>>

\* f.write(content) on a file opened with 'w': the text is written from offset
\* 0 without truncating again, so a different text another process wrote
\* since this process's open is overwritten only as far as content reaches
write(existing, content) ==
    IF existing = TruncatedFile \/ existing = content
    THEN {content}
    ELSE {content, MixedFile}

InitSave ==
    /\ pc = "save_plan"
    /\ saves = [p \in Procs |-> NotOpened]
    /\ InIdle /\ ReqIdle /\ CalcIdle /\ HttpIdle /\ CliIdle

\* _save_plan up to open(filepath, 'w'): the clock is read for the name and
\* again for the "Generated on" line, then the file is created or truncated
SaveOpens(p) ==
    /\ pc = "save_plan"
    /\ saves[p].pc = "ready"
    /\ \E res \in SavedTexts,
          generated_on \in {clock, IF clock < MaxClock THEN clock + 1 ELSE clock} :
          LET filepath == report_path(clock) IN
          /\ clock' = generated_on
          /\ files' = (filepath :> TruncatedFile) @@ files
          /\ saves' = [saves EXCEPT ![p] =
                [pc |-> "opened", second |-> clock, filepath |-> filepath,
                 content |-> report_content(res, SavedRequest, generated_on),
                 found |-> IF filepath \in DOMAIN files THEN files[filepath]
                           ELSE TruncatedFile,
                 overlapped |-> FALSE, left |-> <<>>, raised |-> FALSE]]
    /\ UNCHANGED <<pc, inVars, reqVars, calcVars, httpVars, entry, env,
                   initialised, remoteCalls, out, result, crewVars, runs,
                   mainOutcome, planOutcome, written, faults>>

\* open(filepath, 'w') raises: the exception is caught, no file is touched
SaveOpenRaises(p) ==
    /\ pc = "save_plan"
    /\ saves[p].pc = "ready"
    /\ saves' = [saves EXCEPT ![p] =
          [@ EXCEPT !.pc = "done", !.second = clock,
                    !.filepath = report_path(clock), !.raised = TRUE]]
    /\ UNCHANGED <<pc, inVars, reqVars, calcVars, httpVars, cliVars>>

\* f.write(content) and the close at the end of the with block
SaveWrites(p) ==
    /\ pc = "save_plan"
    /\ saves[p].pc = "opened"
    /\ \E text \in write(files[saves[p].filepath], saves[p].content) :
          /\ files' = (saves[p].filepath :> text) @@ files
          /\ saves' = [saves EXCEPT ![p] =
                [@ EXCEPT !.pc = "done",
                          !.overlapped = (files[saves[p].filepath] # TruncatedFile),
                          !.left = text]]
    /\ UNCHANGED <<pc, inVars, reqVars, calcVars, httpVars, entry, env,
                   initialised, remoteCalls, out, result, crewVars, clock,
                   runs, mainOutcome, planOutcome, written, faults>>

\* f.write(content) raises: the exception is caught, the file stays as it is
SaveWriteRaises(p) ==
    /\ pc = "save_plan"
    /\ saves[p].pc = "opened"
    /\ saves' = [saves EXCEPT ![p] =
          [@ EXCEPT !.pc = "done", !.raised = TRUE,
                    !.left = files[saves[p].filepath]]]
    /\ UNCHANGED <<pc, inVars, reqVars, calcVars, httpVars, cliVars>>

NextSave ==
    \/ \E p \in Procs : SaveOpens(p)
    \/ \E p \in Procs : SaveOpenRaises(p)
    \/ \E p \in Procs : SaveWrites(p)
    \/ \E p \in Procs : SaveWriteRaises(p)
    \/ Tick

SpecSave == InitSave /\ [][NextSave]_vars

----------------------------------------------------------------------------
(* Claims about the CLI flow and config.py, checked under Spec             *)

Absent(name) == env[name] = "absent"

MissingMessage(name) ==
    [msg |-> "Error: not found in environment variables", name |-> name]

Printed(msg) == \E i \in 1..Len(out) : out[i].msg = msg

\* main() printed the missing-credential message and returned at once
MainFailedFast ==
    /\ pc = "exited"
    /\ mainOutcome = How("returned")
    /\ out \in {<<MissingMessage("GOOGLE_API_KEY")>>, <<MissingMessage("SERPER_API_KEY")>>}

\* the import of config.py ended with the ValueError
ConfigFailedFast ==
    /\ pc = "exited"
    /\ mainOutcome = Raised("ValueError")
    /\ out = <<>>

\* C1 as stated: with GOOGLE_API_KEY or SERPER_API_KEY absent, startup fails
\* fast, before the planner is initialised and before any remote call, in
\* main() and in config.py alike.
C1_FailsFastInBoth ==
    (Absent("GOOGLE_API_KEY") \/ Absent("SERPER_API_KEY")) =>
        /\ initialised = {}
        /\ remoteCalls = 0
        /\ pc \notin {"main", "config"} =>
              \/ entry = "main" /\ MainFailedFast
              \/ entry = "config" /\ ConfigFailedFast

\* C1 as amended: main() fails fast when either credential is absent;
\* config.py fails fast only when GOOGLE_API_KEY is absent, and with only
\* SERPER_API_KEY absent it loads and reports "Serper API Key loaded: No".
\* Neither initialises the planner or issues a remote call in these cases.
C1_FailsFast ==
    /\ (Absent("GOOGLE_API_KEY") \/ Absent("SERPER_API_KEY")) =>
          /\ initialised = {}
          /\ remoteCalls = 0
          /\ (entry = "main" /\ pc # "main") => MainFailedFast
    /\ (entry = "config" /\ pc # "config") =>
          /\ Absent("GOOGLE_API_KEY") => ConfigFailedFast
          /\ (getenv(env, "GOOGLE_API_KEY") /\ Absent("SERPER_API_KEY")) =>
                /\ mainOutcome = How("loaded")
                /\ out[Len(out)] = [msg |-> "Serper API Key loaded", loaded |-> FALSE]

\* C1 witness: main() ended on the missing SERPER_API_KEY with nothing
\* initialised and nothing called
C1_Witness ==
    /\ entry = "main"
    /\ pc = "exited"
    /\ getenv(env, "GOOGLE_API_KEY")
    /\ Absent("SERPER_API_KEY")
    /\ out = <<MissingMessage("SERPER_API_KEY")>>
    /\ initialised = {}
    /\ remoteCalls = 0

StepOrder == <<"destination_analysis", "local_expert_insights", "complete_itinerary">>

IsPrefix(s, full) == Len(s) <= Len(full) /\ s = SubSeq(full, 1, Len(s))

\* C4: the steps are issued in the order destination analysis, local expert
\* insights, complete itinerary; a step is issued only when every earlier
\* one has completed; at most one step is in progress; each task lists all
\* earlier tasks as its dependencies.
C4_SequentialSteps ==
    /\ IsPrefix(issued, StepOrder)
    /\ IsPrefix(completed, issued)
    /\ Cardinality(inProgress) <= 1
    /\ inProgress # {} =>
          /\ inProgress = {issued[Len(issued)]}
          /\ completed = SubSeq(issued, 1, Len(issued) - 1)
    /\ Len(completed) >= Len(issued) - 1
    /\ \A i \in 1..Len(tasks) :
          tasks[i].dependencies = [j \in 1..(i - 1) |-> tasks[j].name]

\* C4 witness: the third step is in progress after the first two completed
C4_Witness ==
    /\ inProgress = {"complete_itinerary"}
    /\ completed = <<"destination_analysis", "local_expert_insights">>
    /\ tasks[3].dependencies = completed

DisplayMessage == [msg |-> "YOUR TRAVEL PLAN IS READY", text |-> result]

ReportPaths == {report_path(t) : t \in 0..MaxClock}

InputAndPlanReturned ==
    /\ entry = "main"
    /\ pc = "exited"
    /\ request # PyNone
    /\ planOutcome = How("returned")

\* C5 as stated: whenever input collection and plan_trip both return, the
\* result is printed and then written to exactly one file
\* reports/travel_plan_<timestamp>.md that holds the text verbatim.
C5_AlwaysWritten ==
    InputAndPlanReturned =>
        /\ \E i \in 1..Len(out) : out[i] = DisplayMessage
        /\ \E path \in ReportPaths :
              /\ written = {path}
              /\ files[path][3] = [heading |-> "## Travel Plan", text |-> result]

\* C5 as amended: the result is printed first; then, unless opening or
\* writing the file fails, it is written to exactly one file
\* reports/travel_plan_<timestamp>.md, verbatim under the trip summary of the
\* request; when the save fails the warning is printed, at most that one
\* file was opened and it does not hold the report.
C5_WrittenUnlessSaveFails ==
    /\ written # {} => \E i \in 1..Len(out) : out[i] = DisplayMessage
    /\ written \subseteq ReportPaths
    /\ Cardinality(written) <= 1
    /\ InputAndPlanReturned =>
          /\ Len(out) >= 2
          /\ out[Len(out) - 1] = DisplayMessage
          /\ "save" \notin faults =>
                \E path \in ReportPaths :
                    /\ written = {path}
                    /\ out[Len(out)] = [msg |-> "Travel plan saved to", filepath |-> path]
                    /\ Len(files[path]) = 4
                    /\ files[path][2].heading = "## Trip Summary"
                    /\ files[path][2].origin = request.origin
                    /\ files[path][2].duration = request.duration
                    /\ files[path][2].budget = request.budget_range
                    /\ files[path][3] = [heading |-> "## Travel Plan", text |-> result]
          /\ "save" \in faults =>
                /\ out[Len(out)].msg = "Could not save travel plan"
                /\ \A path \in written : files[path] = TruncatedFile

\* C5 witness: a successful plan was printed and then saved verbatim
C5_Witness ==
    /\ InputAndPlanReturned
    /\ faults = {}
    /\ result = <<"itinerary B">>
    /\ out[Len(out) - 1] = DisplayMessage
    /\ \E path \in written : files[path][3].text = <<"itinerary B">>

\* C11: after a workflow failure inside plan_trip, run_cli goes on as after
\* a success: the error text is printed by _display_results under the
\* "YOUR TRAVEL PLAN IS READY" banner and handed to _save_plan, which writes
\* it into a report file as it would write an itinerary.
C11_FailedRunSavedLikeSuccess ==
    (entry = "main" /\ "workflow" \in faults) =>
        /\ pc \in {"display_results", "save_plan", "exited"}
        /\ Len(result) = 2 /\ result[1] = ErrorPrefix
        /\ pc \in {"save_plan", "exited"} =>
              \E i \in 1..Len(out) :
                  out[i] = [msg |-> "YOUR TRAVEL PLAN IS READY", text |-> result]
        /\ (pc = "exited" /\ "save" \notin faults) =>
              \E path \in ReportPaths :
                  /\ written = {path}
                  /\ out[Len(out)] = [msg |-> "Travel plan saved to", filepath |-> path]
                  /\ Len(files[path]) = 4
                  /\ files[path][3] = [heading |-> "## Travel Plan", text |-> result]

\* C11 witness: a run whose workflow failed ended with the error text in a
\* saved report
C11_Witness ==
    /\ entry = "main"
    /\ pc = "exited"
    /\ faults = {"workflow"}
    /\ \E path \in written :
          /\ Len(files[path]) = 4
          /\ files[path][3].text = error_text("RuntimeError")

----------------------------------------------------------------------------
(* Claims about _get_user_input, checked under SpecInput                   *)

TypedStart == strptime(strip(inputs.start_date))

TypedEnd == strptime(strip(inputs.end_date))

\* C6: the returned duration is the default 7 when either typed date is not
\* accepted as a %Y-%m-%d calendar date or the end date is not strictly after
\* the start date; otherwise it is the number of days from start to end; it
\* is always an integer >= 1.
C6_DurationFallback ==
    pc = "returned" =>
        /\ request.duration \in Int
        /\ request.duration >= 1
        /\ (~TypedStart.ok \/ ~TypedEnd.ok) => request.duration = 7
        /\ (TypedStart.ok /\ TypedEnd.ok /\ TypedEnd.ord <= TypedStart.ord)
               => request.duration = 7
        /\ (TypedStart.ok /\ TypedEnd.ok /\ TypedEnd.ord > TypedStart.ord)
               => request.duration = TypedEnd.ord - TypedStart.ord

\* C6 witness: valid dates typed in the wrong order came back as 7 days
C6_Witness ==
    /\ pc = "returned"
    /\ TypedStart.ok /\ TypedEnd.ok /\ TypedEnd.ord < TypedStart.ord
    /\ request.duration = 7

BudgetSet == {budget_options[i] : i \in 1..Len(budget_options)}

StyleSet == {style_options[i] : i \in 1..Len(style_options)}

\* C7: budget_range and travel_style of the returned request are always one
\* of the enumerated options; a typed value that is an option after trimming
\* and lower-casing is kept, any other becomes "mid-range" / "relaxed".
C7_OptionFallback ==
    pc = "returned" =>
        LET b == lower(strip(inputs.budget_range))
            s == lower(strip(inputs.travel_style))
        IN  /\ request.budget_range \in BudgetSet
            /\ request.travel_style \in StyleSet
            /\ request.budget_range = (IF b \in BudgetSet THEN b ELSE S_mid_range)
            /\ request.travel_style = (IF s \in StyleSet THEN s ELSE S_relaxed)

\* C7 witness: a mixed-case, padded option was kept and an unknown style
\* fell back to the default
C7_Witness ==
    /\ pc = "returned"
    /\ inputs.budget_range # S_budget
    /\ request.budget_range = S_budget
    /\ lower(strip(inputs.travel_style)) \notin StyleSet
    /\ inputs.travel_style # <<>>
    /\ request.travel_style = S_relaxed

IsBlank(s) == \A i \in 1..Len(s) : s[i] \in Whitespace

\* C8: when the interests line has nothing but whitespace and commas the
\* returned interests are exactly the two default tags; the returned list is
\* never empty and never holds an empty or blank string.
C8_InterestsFallback ==
    pc = "returned" =>
        /\ request.interests # <<>>
        /\ \A i \in 1..Len(request.interests) : ~IsBlank(request.interests[i])
        /\ (\A i \in 1..Len(inputs.interests) :
                inputs.interests[i] \in Whitespace \cup {","})
               => request.interests = default_interests

\* C8 witness: a line of only a comma and blanks gave the two default tags
C8_Witness ==
    /\ pc = "returned"
    /\ \E i \in 1..Len(inputs.interests) : inputs.interests[i] = ","
    /\ \A i \in 1..Len(inputs.interests) :
           inputs.interests[i] \in Whitespace \cup {","}
    /\ request.interests = default_interests

----------------------------------------------------------------------------
(* Claims about TravelRequest, checked under SpecRequest                   *)

\* C10: after construction special_requirements is a list, never None (the
\* empty list when it was omitted or None, the list passed otherwise), and
\* to_dict returns a mapping of exactly the ten fields with the same values.
C10_SpecialRequirementsList ==
    /\ pc \in {"constructed", "serialised"} =>
          /\ request.special_requirements # PyNone
          /\ request.special_requirements.py = "list"
          /\ ("special_requirements" \notin DOMAIN ctorArgs
                 \/ ctorArgs.special_requirements = PyNone)
                => request.special_requirements = PyList(<<>>)
          /\ ("special_requirements" \in DOMAIN ctorArgs
                 /\ ctorArgs.special_requirements # PyNone)
                => request.special_requirements = ctorArgs.special_requirements
          /\ \A f \in RequiredFields : request[f] = ctorArgs[f]
    /\ pc = "serialised" =>
          /\ DOMAIN dict = FieldNames
          /\ Cardinality(DOMAIN dict) = 10
          /\ \A f \in FieldNames : dict[f] = request[f]

\* C10 witness: a request built with special_requirements=None was serialised
\* with the empty list
C10_Witness ==
    /\ pc = "serialised"
    /\ "special_requirements" \in DOMAIN ctorArgs
    /\ ctorArgs.special_requirements = PyNone
    /\ dict.special_requirements = PyList(<<>>)

----------------------------------------------------------------------------
(* Claim about calculate_expenses, checked under SpecCalc                  *)

\* the arithmetic set as the claim words it: digits, + - * / . ( ) and whitespace
ArithmeticSet ==
    {Digits[i] : i \in 1..Len(Digits)}
    \cup {"+", "-", "*", "/", ".", "(", ")"} \cup Whitespace

\* C9: an input holding a character outside the arithmetic set is answered
\* with "Error: Invalid characters in expression" without being evaluated;
\* evaluation is reached only for inputs made entirely of allowed characters.
C9_InvalidCharsRejected ==
    pc = "tool_returned" =>
        /\ (\E i \in 1..Len(operation) : operation[i] \notin ArithmeticSet)
              => (toolResult = InvalidCharsMsg /\ ~evaluated)
        /\ evaluated => \A i \in 1..Len(operation) : operation[i] \in ArithmeticSet

\* C9 witness: an expression mixing allowed characters with a letter was
\* rejected unevaluated
C9_Witness ==
    /\ pc = "tool_returned"
    /\ \E i \in 1..Len(operation) : operation[i] \in allowed_chars
    /\ \E i \in 1..Len(operation) : operation[i] = "a"
    /\ toolResult = InvalidCharsMsg
    /\ ~evaluated

----------------------------------------------------------------------------
(* Claim about the HTTP handler, checked under SpecHttp                    *)

\* C2: whatever the body of the POST, plan_trip returns {"itinerary": text}
\* with status 200 or {"error": text} with status 500, and no exception
\* leaves the handler.
C2_JsonShapeAlways ==
    pc = "handler_left" =>
        /\ "raised" \notin DOMAIN response
        /\ \/ response.status = 200 /\ response.key = "itinerary"
           \/ response.status = 500 /\ response.key = "error"

----------------------------------------------------------------------------
(* Claims about concurrent _save_plan calls, checked under SpecSave *)

\* the call of process p got as far as building its file path
Called(p) == saves[p].pc # "ready"

\* the call of process p wrote its report and returned
Wrote(p) == saves[p].pc = "done" /\ ~saves[p].raised

\* the file name spelled out for a second of the wall clock
NameForSecond(second) ==
    [dir |-> "reports", name |-> <<"travel_plan_", second, ".md">>]

\* no other process's call read the second that process p's call read
AloneInItsSecond(p) ==
    \A q \in Procs \ {p} : Called(q) => saves[q].second # saves[p].second

\* the path of a call is the name for the second it read, so two calls have
\* the same path exactly when they read the same second
NameFromSecondOnly ==
    /\ \A path \in DOMAIN files : \E second \in 0..MaxClock : path = NameForSecond(second)
    /\ \A p \in Procs : Called(p) => saves[p].filepath = NameForSecond(saves[p].second)
    /\ \A p, q \in Procs :
          (Called(p) /\ Called(q)) =>
              ((saves[p].second = saves[q].second) <=> (saves[p].filepath = saves[q].filepath))

\* a report written by a call that was alone in its second is still there
DifferentSecondsApart ==
    \A p \in Procs :
        (Wrote(p) /\ AloneInItsSecond(p)) =>
            /\ saves[p].left = saves[p].content
            /\ files[saves[p].filepath] = saves[p].content

\* C12 as stated: the file name depends only on the second read from the wall
\* clock; calls in the same second have the same path and every write leaves
\* the file holding exactly the report written, replacing what was there;
\* calls in different seconds never touch each other's files.
C12_LaterWriteReplaces ==
    /\ NameFromSecondOnly
    /\ \A p \in Procs : Wrote(p) => saves[p].left = saves[p].content
    /\ DifferentSecondsApart

\* C12, amended: the file name depends only on the second read from the wall
\* clock; calls in the same second have the same path; a write that finds the
\* file as its own open left it replaces the earlier report, a write that
\* lands after another process wrote in between leaves either its report or
\* a mix of the two; calls in different seconds never touch each other's
\* files.
C12_ReplacesUnlessOverlapped ==
    /\ NameFromSecondOnly
    /\ \A p \in Procs :
          Wrote(p) =>
              /\ ~saves[p].overlapped => saves[p].left = saves[p].content
              /\ saves[p].overlapped => saves[p].left \in {saves[p].content, MixedFile}
    /\ DifferentSecondsApart

\* C12 witness: two processes saved in the same second one after the other,
\* and the file holds the later report in place of the earlier one
C12_Witness ==
    \E p, q \in Procs :
        /\ p # q
        /\ Wrote(p) /\ Wrote(q)
        /\ saves[p].second = saves[q].second
        /\ saves[p].filepath = saves[q].filepath
        /\ ~saves[p].overlapped
        /\ Len(saves[p].found) = 4
        /\ saves[p].found = saves[q].content
        /\ saves[p].content # saves[q].content
        /\ files[saves[p].filepath] = saves[p].content

====
